---- MODULE Spec2Model ----
(***************************************************************************)
(* Weather page of src/main.js: a submit handler that resolves a city with *)
(* the geocoding endpoint, fetches the current weather for its coordinates *)
(* and renders it.  The view (status line, visibility of the weather       *)
(* region and its ten text fields) is the only shared state; every submit  *)
(* event starts its own asynchronous run of handleSearch.                  *)
(*                                                                         *)
(* Conventions.  A JavaScript value that may be undefined/null is a        *)
(* sequence of length at most one (<<>> is undefined, <<v>> is v).         *)
(* Decimal numbers are integers counting tenths (216 is 21.6).  The text   *)
(* of the input box is a sequence of one-character strings, so that trim() *)
(* has something to do; every other string is a TLA+ string, written in    *)
(* ASCII: accents are dropped ("Ceu limpo" for "Céu limpo"), the degree    *)
(* sign is "deg", the ellipsis "..." and the em dash "--".                 *)
(***************************************************************************)
EXTENDS Integers, Sequences, FiniteSets, TLC

VARIABLES
    input,        \* input.value, the text of the search box
    loaded,       \* whether DOMContentLoaded has fired
    statusText,   \* statusEl.textContent
    statusClass,  \* statusEl.className
    hidden,       \* weatherEl.classList.contains('hidden')
    ui,           \* textContent of the ten fields of the weather region
    subs,         \* one record per submit event: the run of handleSearch it started
    settled       \* what the run that returned last had received and thrown

vars == <<input, loaded, statusText, statusClass, hidden, ui, subs, settled>>

view == <<statusText, statusClass, hidden, ui>>

(***************************************************************************)
(* Bounds of the model.                                                    *)
(***************************************************************************)
MaxSubmits == 2    \* submit events in one behaviour
CodeMargin == 2    \* weather codes tried below 0 and above the table's last key

(***************************************************************************)
(* Optional values.                                                        *)
(***************************************************************************)
None == <<>>

Some(v) == <<v>>

\* JavaScript truthiness of an optional string: undefined and '' are falsy.
TruthyStr(o) == o /= None /\ o[1] /= ""

\* JavaScript truthiness of an optional number: undefined and 0 are falsy.
TruthyNum(o) == o /= None /\ o[1] /= 0

(***************************************************************************)
(* String.prototype.trim on the text of the search box.                    *)
(***************************************************************************)
IsSpace(c) == c = " "

RECURSIVE TrimStart(_)
TrimStart(s) ==
    IF s = <<>> THEN <<>>
    ELSE IF IsSpace(Head(s)) THEN TrimStart(Tail(s)) ELSE s

RECURSIVE TrimEnd(_)
TrimEnd(s) ==
    IF s = <<>> THEN <<>>
    ELSE IF IsSpace(s[Len(s)]) THEN TrimEnd(SubSeq(s, 1, Len(s) - 1)) ELSE s

NoTrim(s) == s

Trim(s) == TrimEnd(TrimStart(s))

(***************************************************************************)
(* Weather codes (lines 34-63) and the lookup of line 128.                 *)
(***************************************************************************)
WEATHER_CODE_MAP ==
    (0 :> "Ceu limpo") @@ (1 :> "Principalmente limpo") @@
    (2 :> "Parcialmente nublado") @@ (3 :> "Nublado") @@
    (45 :> "Nevoeiro") @@ (48 :> "Nevoeiro depositante") @@
    (51 :> "Garoa leve") @@ (53 :> "Garoa") @@ (55 :> "Garoa intensa") @@
    (56 :> "Garoa gelada leve") @@ (57 :> "Garoa gelada intensa") @@
    (61 :> "Chuva fraca") @@ (63 :> "Chuva") @@ (65 :> "Chuva forte") @@
    (66 :> "Chuva gelada fraca") @@ (67 :> "Chuva gelada forte") @@
    (71 :> "Neve fraca") @@ (73 :> "Neve") @@ (75 :> "Neve forte") @@
    (77 :> "Graos de neve") @@
    (80 :> "Aguaceiros fracos") @@ (81 :> "Aguaceiros") @@
    (82 :> "Aguaceiros fortes") @@
    (85 :> "Aguaceiros de neve fracos") @@ (86 :> "Aguaceiros de neve fortes") @@
    (95 :> "Trovoadas") @@ (96 :> "Trovoadas com granizo leve") @@
    (99 :> "Trovoadas com granizo forte")

\* A lookup that tests the code itself for truthiness: code 0 takes the fallback.
WeatherCodeTextFalsyZero(code) ==
    IF TruthyNum(code) /\ code[1] \in DOMAIN WEATHER_CODE_MAP
    THEN WEATHER_CODE_MAP[code[1]]
    ELSE "Codigo " \o (IF code = None THEN "undefined" ELSE ToString(code[1]))

\* WEATHER_CODE_MAP[current.weather_code] || `Código ${current.weather_code}`
WeatherCodeText(code) ==
    IF code /= None /\ code[1] \in DOMAIN WEATHER_CODE_MAP
          /\ WEATHER_CODE_MAP[code[1]] /= ""
    THEN WEATHER_CODE_MAP[code[1]]
    ELSE "Codigo " \o (IF code = None THEN "undefined" ELSE ToString(code[1]))

(***************************************************************************)
(* Formatter (lines 108-121).                                              *)
(***************************************************************************)
\* The placeholder glyph (an em dash, U+2014), written in ASCII here.
Dash == "--"

\* Math.round on tenths: the nearest integer, halves towards +infinity.
Round(t) == (t + 5) \div 10

\* String(v) of a number given in tenths, as a template literal prints it.
NumStr(t) ==
    LET a == IF t < 0 THEN 0 - t ELSE t
        digits == IF a % 10 = 0 THEN ToString(a \div 10)
                  ELSE ToString(a \div 10) \o "." \o ToString(a % 10)
    IN  IF t < 0 THEN "-" \o digits ELSE digits

FormatNumber(v, unit) ==
    IF v = None THEN Dash ELSE ToString(Round(v[1])) \o unit

\* The time zones Intl accepts; any other makes toLocaleString throw RangeError.
ValidTimeZones ==
    {"America/Sao_Paulo", "Europe/Lisbon", "America/Chicago", "Asia/Singapore"}

\* Date.prototype.toLocaleString('pt-BR', {timeZone: tz, ...}) is the platform's:
\* its result is kept symbolic, a text determined by the instant and the zone
\* (an undefined zone is the browser's own).
ToLocaleString(iso, tz) ==
    "pt-BR(" \o iso \o "@" \o (IF tz = None THEN "local" ELSE tz[1]) \o ")"

FormatTimeISOToLocal(iso, tz) ==
    IF ~TruthyStr(iso) THEN Dash
    ELSE IF tz /= None /\ tz[1] \notin ValidTimeZones THEN iso[1]
    ELSE ToLocaleString(iso[1], tz)

(***************************************************************************)
(* What the two endpoints and the transport can answer.  A response is     *)
(* [fetch, ok, body]: fetch is None when the promise of fetch resolved and *)
(* the rejection's message otherwise; ok is res.ok; body is None when      *)
(* res.json() rejects and the parsed JSON value otherwise.                 *)
(***************************************************************************)
\* Messages of the platform's errors (their wording is the browser's).
FetchFailed == "Failed to fetch"

JsonFailed == "Unexpected end of JSON input"

NullDestructure == "Cannot destructure property 'current' of 'weather' as it is null."

UndefinedRead == "Cannot read properties of undefined (reading 'time')"

Place(name, admin1, country, lat, lon, tz) ==
    [name |-> name, admin1 |-> admin1, country |-> country,
     latitude |-> lat, longitude |-> lon, timezone |-> tz]

SaoPaulo ==
    Place("Sao Paulo", Some("SP"), Some("Brazil"), -235, -466, Some("America/Sao_Paulo"))

Lisboa == Place("Lisboa", None, Some("Portugal"), 387, -91, Some("Europe/Lisbon"))

Springfield == Place("Springfield", Some("Illinois"), None, 398, -896, Some("America/Chicago"))

Atlantis == Place("Atlantis", None, None, 0, 0, None)

Singapore == Place("Singapore", Some(""), Some("Singapore"), 13, 1038, Some("Asia/Singapore"))

Places == {SaoPaulo, Lisboa, Springfield, Atlantis, Singapore}

Resolved(ok, body) == [fetch |-> None, ok |-> ok, body |-> body]

Rejected(message) == [fetch |-> Some(message), ok |-> FALSE, body |-> None]

\* Every answer of the geocoding endpoint the model knows.
AllGeoResponses ==
    {Rejected(FetchFailed), Resolved(FALSE, None), Resolved(TRUE, None),
     Resolved(TRUE, Some([results |-> None])),
     Resolved(TRUE, Some([results |-> Some(<<>>)])),
     Resolved(TRUE, Some([results |-> Some(<<Lisboa, SaoPaulo>>)])),
     Resolved(TRUE, Some([results |-> Some(<<Atlantis, Springfield, SaoPaulo>>)]))}
    \cup {Resolved(TRUE, Some([results |-> Some(<<p>>)])) : p \in Places}

\* The answers tried when several runs interleave: every way to fail, two places.
GeoResponses ==
    {Rejected(FetchFailed), Resolved(FALSE, None),
     Resolved(TRUE, Some([results |-> Some(<<>>)])),
     Resolved(TRUE, Some([results |-> Some(<<SaoPaulo>>)])),
     Resolved(TRUE, Some([results |-> Some(<<Atlantis>>)])),
     Resolved(TRUE, Some([results |-> Some(<<Lisboa, SaoPaulo>>)]))}

Current(time, temp, apparent, humidity, pressure, precip, cloud, code, speed, dir) ==
    [time |-> time, temperature_2m |-> temp, apparent_temperature |-> apparent,
     relative_humidity_2m |-> humidity, pressure_msl |-> pressure,
     precipitation |-> precip, cloud_cover |-> cloud, weather_code |-> code,
     wind_speed_10m |-> speed, wind_direction_10m |-> dir]

\* A complete payload whose weather code is c.
Observed(c) ==
    [current |-> Some(Current(Some("2024-05-01T12:00"), Some(216), Some(225), Some(600),
                              Some(10132), Some(2), Some(750), Some(c), Some(123),
                              Some(1800))),
     timezone |-> Some("America/Sao_Paulo")]

\* A payload with missing values, a zero wind direction and no time zone.
Sparse ==
    [current |-> Some(Current(None, Some(-25), None, None, None, None, None, Some(0),
                              Some(0), Some(0))),
     timezone |-> None]

\* A malformed payload: no "current" object.
NoCurrent == [current |-> None, timezone |-> Some("America/Sao_Paulo")]

\* The last key of WEATHER_CODE_MAP.
LastCode == 99

Codes == (0 - CodeMargin)..(LastCode + CodeMargin)

\* Every answer of the weather endpoint the model knows.
AllWxResponses ==
    {Rejected(FetchFailed), Resolved(FALSE, None), Resolved(TRUE, None),
     Resolved(TRUE, Some(None)), Resolved(TRUE, Some(Some(NoCurrent))),
     Resolved(TRUE, Some(Some(Sparse)))}
    \cup {Resolved(TRUE, Some(Some(Observed(c)))) : c \in Codes}

\* The answers tried when several runs interleave.
WxResponses ==
    {Rejected(FetchFailed), Resolved(FALSE, None), Resolved(TRUE, Some(Some(NoCurrent))),
     Resolved(TRUE, Some(Some(Observed(3)))), Resolved(TRUE, Some(Some(Sparse)))}

(***************************************************************************)
(* geocodeCity (lines 65-82) as a function of the endpoint's answer: the   *)
(* value it returns, or the message of the error it throws.                *)
(***************************************************************************)
Returned(v) == [ok |-> TRUE, value |-> Some(v), message |-> ""]

Thrown(message) == [ok |-> FALSE, value |-> None, message |-> message]

\* A composition that prints both segments whatever the result holds.
ComposeNameAlways(r) ==
    r.name \o ", " \o (IF r.admin1 = None THEN "undefined" ELSE r.admin1[1])
           \o " - " \o (IF r.country = None THEN "undefined" ELSE r.country[1])

\* `${r.name}${r.admin1 ? ', ' + r.admin1 : ''}${r.country ? ' - ' + r.country : ''}`
ComposeName(r) ==
    r.name \o (IF TruthyStr(r.admin1) THEN ", " \o r.admin1[1] ELSE "")
           \o (IF TruthyStr(r.country) THEN " - " \o r.country[1] ELSE "")

GeocodeCity(res) ==
    IF res.fetch /= None THEN Thrown(res.fetch[1])
    ELSE IF ~res.ok THEN Thrown("Falha ao buscar geocodificacao")
    ELSE IF res.body = None THEN Thrown(JsonFailed)
    ELSE IF res.body[1].results = None \/ Len(res.body[1].results[1]) = 0
         THEN Thrown("Cidade nao encontrada")
    ELSE LET r == res.body[1].results[1][1]
         IN  Returned([name |-> ComposeName(r), latitude |-> r.latitude,
                       longitude |-> r.longitude, timezone |-> r.timezone])

(***************************************************************************)
(* getWeather (lines 84-106): the query it sends and what it returns.      *)
(***************************************************************************)
\* The query with the two coordinates exchanged.
WeatherQuerySwapped(lat, lon, timezone) ==
    [latitude |-> lon, longitude |-> lat,
     timezone |-> IF TruthyStr(timezone) THEN timezone[1] ELSE "auto"]

WeatherQuery(lat, lon, timezone) ==
    [latitude |-> lat, longitude |-> lon,
     timezone |-> IF TruthyStr(timezone) THEN timezone[1] ELSE "auto"]

GetWeather(res) ==
    IF res.fetch /= None THEN Thrown(res.fetch[1])
    ELSE IF ~res.ok THEN Thrown("Falha ao buscar clima")
    ELSE IF res.body = None THEN Thrown(JsonFailed)
    ELSE Returned(res.body[1])

(***************************************************************************)
(* The view: setStatus (23-26), showWeatherSection (28-30), updateUI       *)
(* (123-135).  Each is a function from the view before to the view after.  *)
(***************************************************************************)
Fields ==
    {"location", "obsTime", "temp", "code", "wind", "humidity", "apparent",
     "pressure", "precip", "cloud"}

CurrentView ==
    [statusText |-> statusText, statusClass |-> statusClass, hidden |-> hidden, ui |-> ui]

SetView(v) ==
    /\ statusText' = v.statusText
    /\ statusClass' = v.statusClass
    /\ hidden' = v.hidden
    /\ ui' = v.ui

SetStatus(v, msg, type) ==
    [v EXCEPT !.statusText = msg, !.statusClass = "status " \o type]

ShowWeatherSection(v, show) == [v EXCEPT !.hidden = ~show]

\* The ten texts lines 125-134 assign, for a payload that has a "current" object.
RenderedFields(city, current, timezone) ==
    [location |-> city.name,
     obsTime |-> "Atualizado: " \o FormatTimeISOToLocal(current.time, timezone),
     temp |-> FormatNumber(current.temperature_2m, "degC"),
     code |-> WeatherCodeText(current.weather_code),
     wind |-> FormatNumber(current.wind_speed_10m, " km/h") \o " ("
              \o (IF TruthyNum(current.wind_direction_10m)
                  THEN NumStr(current.wind_direction_10m[1]) ELSE Dash)
              \o "deg)",
     humidity |-> FormatNumber(current.relative_humidity_2m, "%"),
     apparent |-> FormatNumber(current.apparent_temperature, "degC"),
     pressure |-> FormatNumber(current.pressure_msl, " hPa"),
     precip |-> (IF current.precipitation /= None
                 THEN NumStr(current.precipitation[1]) ELSE Dash) \o " mm",
     cloud |-> FormatNumber(current.cloud_cover, "%")]

\* A render without line 125: the place name of the previous render stays.
UpdateUIKeepsLocation(u, city, weather) ==
    IF weather = None THEN [ui |-> u, threw |-> Some(NullDestructure)]
    ELSE IF weather[1].current = None THEN [ui |-> u, threw |-> Some(UndefinedRead)]
    ELSE [ui |-> [RenderedFields(city, weather[1].current[1], weather[1].timezone)
                    EXCEPT !.location = u.location],
          threw |-> None]

\* The fields after updateUI(city, weather), and the message of the TypeError it
\* throws, if any: destructuring a null payload throws before the first assignment,
\* reading current.time of a payload without "current" throws after it.
UpdateUI(u, city, weather) ==
    IF weather = None THEN [ui |-> u, threw |-> Some(NullDestructure)]
    ELSE IF weather[1].current = None
         THEN [ui |-> [u EXCEPT !.location = city.name], threw |-> Some(UndefinedRead)]
    ELSE [ui |-> RenderedFields(city, weather[1].current[1], weather[1].timezone),
          threw |-> None]

(***************************************************************************)
(* handleSearch (137-157), piece by piece, as changes of the view.         *)
(***************************************************************************)
\* Lines 142-143 without the call that hides the weather region.
EnterSearchingKeepsRegion(v) == SetStatus(v, "Buscando cidade...", "info")

\* Lines 142-143.
EnterSearching(v) ==
    ShowWeatherSection(SetStatus(v, "Buscando cidade...", "info"), FALSE)

\* Line 147.
EnterWeather(v) == SetStatus(v, "Buscando clima...", "info")

\* Lines 149-151 without setStatus(''): the status of the search stays.
DisplayKeepsStatus(v, city, weather) ==
    LET r == UpdateUI(v.ui, city, weather)
    IN  IF r.threw /= None
        THEN ShowWeatherSection(SetStatus([v EXCEPT !.ui = r.ui], r.threw[1], "error"), FALSE)
        ELSE ShowWeatherSection([v EXCEPT !.ui = r.ui], TRUE)

\* A catch block that sets the status and leaves the weather region as it is.
CatchKeepsRegion(v, message) ==
    SetStatus(v, IF message /= "" THEN message ELSE "Erro ao buscar dados", "error")

\* Lines 152-156, the catch block, for an error with the given message.
Catch(v, message) ==
    ShowWeatherSection(
        SetStatus(v, IF message /= "" THEN message ELSE "Erro ao buscar dados", "error"),
        FALSE)

\* Lines 149-151 with the render outside the try: a throw leaves the view as it is.
DisplayUncaught(v, city, weather) ==
    LET r == UpdateUI(v.ui, city, weather)
    IN  IF r.threw /= None THEN [v EXCEPT !.ui = r.ui]
        ELSE ShowWeatherSection(SetStatus([v EXCEPT !.ui = r.ui], "", "info"), TRUE)

\* Lines 149-151, and the catch block when updateUI throws.
Display(v, city, weather) ==
    LET r == UpdateUI(v.ui, city, weather)
    IN  IF r.threw /= None THEN Catch([v EXCEPT !.ui = r.ui], r.threw[1])
        ELSE ShowWeatherSection(SetStatus([v EXCEPT !.ui = r.ui], "", "info"), TRUE)

(***************************************************************************)
(* The runs of handleSearch.  pc is where the run stands: "rejected" (it   *)
(* returned at line 140), "geocode" (awaiting line 146), "weather"         *)
(* (awaiting line 148), "done" (line 151 passed) or "error" (the catch     *)
(* block ran).  geoReq and wxReq are the run's request in flight, geoSent  *)
(* and wxSent count the requests it has sent; geoRes and city are what the *)
(* run holds between its two requests.  A run that has returned keeps only *)
(* its counters; settled remembers the last of them.                       *)
(***************************************************************************)
Inputs == {<<>>, <<" ", " ">>, <<" ", "a", " ">>}

DefaultCity == <<"S", "a", "o", " ", "P", "a", "u", "l", "o">>

Returning(pc) ==
    [pc |-> pc, geoReq |-> None, geoSent |-> 0, geoRes |-> None, city |-> None,
     wxReq |-> None, wxSent |-> 0]

\* Line 146: the run sends its geocoding request, name=q.
StartGeocode(q) ==
    [Returning("geocode") EXCEPT !.geoReq = Some(q), !.geoSent = 1]

\* Line 148: the run has its city and sends the weather request.
StartWeather(s, res, city) ==
    [s EXCEPT !.pc = "weather", !.geoReq = None, !.geoRes = Some(res),
              !.city = Some(city),
              !.wxReq = Some(WeatherQuery(city.latitude, city.longitude, city.timezone)),
              !.wxSent = @ + 1]

\* A run that sends a failed request once more before it gives up.
FailAfterRetry(s) ==
    [s EXCEPT !.pc = "error", !.geoReq = None, !.geoRes = None, !.city = None,
              !.wxReq = None,
              !.geoSent = IF s.pc = "geocode" THEN @ + 1 ELSE @,
              !.wxSent = IF s.pc = "weather" THEN @ + 1 ELSE @]

\* Lines 152-156: the run ends in the catch block.
Fail(s) ==
    [s EXCEPT !.pc = "error", !.geoReq = None, !.geoRes = None, !.city = None,
              !.wxReq = None]

\* Line 151 passed: the run ends.
Finish(s) ==
    [s EXCEPT !.pc = "done", !.geoReq = None, !.geoRes = None, !.city = None,
              !.wxReq = None]

Outcome(i, s, wxRes, err) ==
    Some([run |-> i, geoRes |-> s.geoRes, city |-> s.city, wxRes |-> wxRes, err |-> err])

Runs == 1..Len(subs)

InFlight(i) == i \in Runs /\ subs[i].pc \in {"geocode", "weather"}

\* The page as the script finds it (lines 5-21): an empty search box, an empty
\* status line, the weather region hidden and its fields holding the placeholder.
Init ==
    /\ input = <<>>
    /\ loaded = FALSE
    /\ statusText = ""
    /\ statusClass = "status"
    /\ hidden = TRUE
    /\ ui = [f \in Fields |-> Dash]
    /\ subs = <<>>
    /\ settled = None

\* The user edits the search box (input.value, read at line 139).  Edits after the
\* last submit event of a behaviour are never read and are left out.
TypeInput(v) ==
    /\ Len(subs) < MaxSubmits
    /\ v /= input
    /\ input' = v
    /\ UNCHANGED <<loaded, statusText, statusClass, hidden, ui, subs, settled>>

\* handleSearch up to its first await (lines 138-146), for the given input.value.
HandleSearch(value) ==
    LET q == Trim(value)
    IN  IF q = <<>>
        THEN /\ subs' = Append(subs, Returning("rejected"))
             /\ UNCHANGED <<statusText, statusClass, hidden, ui, settled>>
        ELSE /\ SetView(EnterSearching(CurrentView))
             /\ subs' = Append(subs, StartGeocode(q))
             /\ UNCHANGED settled

\* A submit event of the form (line 159).
Submit ==
    /\ Len(subs) < MaxSubmits
    /\ HandleSearch(input)
    /\ UNCHANGED <<input, loaded>>

\* Lines 162-167: the default city fills an empty box, then a submit event.
DOMContentLoaded ==
    /\ ~loaded
    /\ Len(subs) < MaxSubmits
    /\ loaded' = TRUE
    /\ input' = (IF input = <<>> THEN DefaultCity ELSE input)
    /\ HandleSearch(IF input = <<>> THEN DefaultCity ELSE input)

\* The geocoding endpoint answers run i: lines 71-81, then 147-148 or 152-156.
\* The awaits of fetch and of res.json() are one step: nothing is written between.
GeocodeResponse(i, res) ==
    /\ i \in Runs
    /\ subs[i].pc = "geocode"
    /\ LET r == GeocodeCity(res)
       IN  IF r.ok
           THEN /\ SetView(EnterWeather(CurrentView))
                /\ subs' = [subs EXCEPT ![i] = StartWeather(@, res, r.value[1])]
                /\ UNCHANGED settled
           ELSE /\ SetView(Catch(CurrentView, r.message))
                /\ subs' = [subs EXCEPT ![i] = Fail(@)]
                /\ settled' = Outcome(i, [subs[i] EXCEPT !.geoRes = Some(res)],
                                      None, Some(r.message))
    /\ UNCHANGED <<input, loaded>>

\* The weather endpoint answers run i: lines 102-105, then 149-151 or 152-156,
\* all of it in one turn of the event loop.
WeatherResponse(i, res) ==
    /\ i \in Runs
    /\ subs[i].pc = "weather"
    /\ LET r == GetWeather(res)
           city == subs[i].city[1]
       IN  IF r.ok
           THEN LET t == UpdateUI(ui, city, r.value[1])
                IN  /\ SetView(Display(CurrentView, city, r.value[1]))
                    /\ subs' = [subs EXCEPT ![i] =
                                  IF t.threw = None THEN Finish(@) ELSE Fail(@)]
                    /\ settled' = Outcome(i, subs[i], Some(res), t.threw)
           ELSE /\ SetView(Catch(CurrentView, r.message))
                /\ subs' = [subs EXCEPT ![i] = Fail(@)]
                /\ settled' = Outcome(i, subs[i], Some(res), Some(r.message))
    /\ UNCHANGED <<input, loaded>>

Next ==
    \/ \E v \in Inputs : TypeInput(v)
    \/ Submit
    \/ DOMContentLoaded
    \/ \E i \in 1..MaxSubmits, res \in GeoResponses : GeocodeResponse(i, res)
    \/ \E i \in 1..MaxSubmits, res \in WxResponses : WeatherResponse(i, res)

Spec == Init /\ [][Next]_vars

(***************************************************************************)
(* The same program with every answer of the two endpoints, for one run:   *)
(* the page loads, searches its city, and renders what comes back.         *)
(***************************************************************************)
NextFormat ==
    \/ DOMContentLoaded
    \/ \E res \in AllGeoResponses : GeocodeResponse(1, res)
    \/ \E res \in AllWxResponses : WeatherResponse(1, res)

SpecFormat == Init /\ [][NextFormat]_vars

(***************************************************************************)
(* The same program when every network call completes: an awaited promise  *)
(* that settles resumes its run.                                           *)
(***************************************************************************)
LiveSpec ==
    /\ Spec
    /\ \A i \in 1..MaxSubmits :
         /\ WF_vars(\E res \in GeoResponses : GeocodeResponse(i, res))
         /\ WF_vars(\E res \in WxResponses : WeatherResponse(i, res))

(***************************************************************************)
(* Vocabulary of the properties.                                           *)
(***************************************************************************)
IsBlank(s) == \A k \in 1..Len(s) : s[k] = " "

Quiet == \A i \in Runs : ~InFlight(i)

Present(o) == o /= None /\ o[1] /= ""

LookingUp == {"Buscando cidade...", "Buscando clima..."}

\* The first element of the result list of a geocoding answer that has one.
FirstResult(res) == res[1].body[1].results[1][1]

\* The payload of a weather answer that carries a "current" object.
HasCurrent(res) ==
    /\ res /= None /\ res[1].fetch = None /\ res[1].ok
    /\ res[1].body /= None /\ res[1].body[1] /= None
    /\ res[1].body[1][1].current /= None

CurrentOf(res) == res[1].body[1][1].current[1]

\* The view shows exactly the render of the last settled run's place and payload.
ShowsSettled ==
    /\ settled /= None
    /\ settled[1].city /= None
    /\ HasCurrent(settled[1].wxRes)
    /\ LET city == settled[1].city[1]
           c == CurrentOf(settled[1].wxRes)
       IN  /\ ui.location = city.name
           /\ ui.code = WeatherCodeText(c.weather_code)
           /\ ui.temp = FormatNumber(c.temperature_2m, "degC")
           /\ ui.apparent = FormatNumber(c.apparent_temperature, "degC")
           /\ ui.humidity = FormatNumber(c.relative_humidity_2m, "%")
           /\ ui.pressure = FormatNumber(c.pressure_msl, " hPa")
           /\ ui.cloud = FormatNumber(c.cloud_cover, "%")
           /\ ui = RenderedFields(city, c, settled[1].wxRes[1].body[1][1].timezone)

(***************************************************************************)
(* C1.  A submit event whose input is empty or only white space sends no   *)
(* request and changes nothing of the view: status text, status class,     *)
(* visibility and the ten fields stay as they were, and so does every      *)
(* other run.                                                              *)
(***************************************************************************)
C1_BlankSubmitIsNoOp ==
    [][(Len(subs') = Len(subs) + 1 /\ IsBlank(input')) =>
          /\ view' = view
          /\ settled' = settled
          /\ subs'[Len(subs')].geoSent = 0
          /\ subs'[Len(subs')].wxSent = 0
          /\ subs'[Len(subs')].geoReq = None
          /\ \A i \in Runs : subs'[i] = subs[i]]_vars

\* A blank submit has happened after an earlier run put weather on display.
C1_Witness ==
    /\ Len(subs) = 2
    /\ subs[1].pc = "done"
    /\ subs[2].pc = "rejected"
    /\ subs[2].geoSent = 0
    /\ ~hidden

(***************************************************************************)
(* C2.  When every network call completes, each run with a non-empty query *)
(* ends: it reaches "done" or "error", and the step that ends it leaves    *)
(* the view Displaying (status cleared, region visible) or in Error (an    *)
(* error message as status, region hidden), never with a "looking up"      *)
(* status; this includes a malformed payload on which updateUI throws.     *)
(***************************************************************************)
C2_EverySearchSettles ==
    /\ \A i \in 1..MaxSubmits :
         InFlight(i) ~> (i \in Runs /\ subs[i].pc \in {"done", "error"})
    /\ [][\A i \in Runs :
            (InFlight(i) /\ subs'[i].pc \notin {"geocode", "weather"}) =>
               \/ /\ subs'[i].pc = "done"
                  /\ statusText' = ""
                  /\ ~hidden'
               \/ /\ subs'[i].pc = "error"
                  /\ statusText' /= ""
                  /\ statusText' \notin LookingUp
                  /\ statusClass' = "status error"
                  /\ hidden']_vars

\* A run has ended in Error because its payload had no "current" object.
C2_Witness ==
    /\ settled /= None
    /\ settled[1].wxRes = Some(Resolved(TRUE, Some(Some(NoCurrent))))
    /\ subs[settled[1].run].pc = "error"
    /\ statusText = UndefinedRead
    /\ hidden

(***************************************************************************)
(* C3.  A run sends its weather request only after its geocoding request   *)
(* has completed with a result, and the request carries the latitude, the  *)
(* longitude and the time zone of that result ("auto" when the result has  *)
(* no time zone); a run whose geocoding failed has sent no weather request.*)
(***************************************************************************)
C3_WeatherAfterGeocode ==
    /\ \A i \in Runs :
         LET s == subs[i]
         IN  /\ s.pc \in {"geocode", "rejected"} => s.wxSent = 0 /\ s.wxReq = None
             /\ s.wxSent > 0 => s.geoSent > 0 /\ s.geoReq = None
             /\ s.wxReq /= None =>
                  /\ s.pc = "weather"
                  /\ s.geoRes /= None
                  /\ s.geoRes[1].fetch = None /\ s.geoRes[1].ok
                  /\ s.wxReq[1].latitude = FirstResult(s.geoRes).latitude
                  /\ s.wxReq[1].longitude = FirstResult(s.geoRes).longitude
                  /\ s.wxReq[1].timezone =
                       (IF Present(FirstResult(s.geoRes).timezone)
                        THEN FirstResult(s.geoRes).timezone[1] ELSE "auto")
    /\ (settled /= None /\ settled[1].wxRes = None) =>
          /\ subs[settled[1].run].pc = "error"
          /\ subs[settled[1].run].wxSent = 0

\* A weather request for the coordinates of São Paulo is in flight.
C3_Witness ==
    \E i \in Runs :
        /\ subs[i].pc = "weather"
        /\ subs[i].wxReq = Some([latitude |-> -235, longitude |-> -466,
                                 timezone |-> "America/Sao_Paulo"])

(***************************************************************************)
(* C4.  When the geocoding call or the weather call of the last settled    *)
(* run failed and no run is in flight, the view is in Error: the status    *)
(* text is the error's message (the not-found message for zero results,    *)
(* the client's message for a non-OK answer, the rejection's message for a *)
(* rejected call) with class "status error", and the weather region is     *)
(* hidden; with no run in flight the view changes only by a new submit.    *)
(***************************************************************************)
C4_FailureEndsInError ==
    /\ [](  (Quiet /\ settled /= None /\ settled[1].err /= None) =>
              LET o == settled[1]
                  g == o.geoRes[1]
              IN  /\ subs[o.run].pc = "error"
                  /\ statusClass = "status error"
                  /\ hidden
                  /\ statusText /= ""
                  /\ (o.wxRes = None /\ g.fetch /= None) => statusText = g.fetch[1]
                  /\ (o.wxRes = None /\ g.fetch = None /\ ~g.ok) =>
                        statusText = "Falha ao buscar geocodificacao"
                  /\ (o.wxRes = None /\ g.fetch = None /\ g.ok /\ g.body /= None) =>
                        statusText = "Cidade nao encontrada"
                  /\ (o.wxRes /= None /\ o.wxRes[1].fetch /= None) =>
                        statusText = o.wxRes[1].fetch[1]
                  /\ (o.wxRes /= None /\ o.wxRes[1].fetch = None /\ ~o.wxRes[1].ok) =>
                        statusText = "Falha ao buscar clima" )
    /\ [][(Quiet /\ Len(subs') = Len(subs)) => (view' = view /\ subs' = subs)]_vars

\* Geocoding found nothing for the only run in flight, after an earlier run had
\* put weather on display.
C4_Witness ==
    /\ Quiet
    /\ Len(subs) = 2
    /\ subs[1].pc = "done"
    /\ settled /= None
    /\ settled[1].run = 2
    /\ settled[1].geoRes = Some(Resolved(TRUE, Some([results |-> Some(<<>>)])))
    /\ statusText = "Cidade nao encontrada"

(***************************************************************************)
(* C5.  Once no run is in flight, the view is exactly what the run that    *)
(* returned last wrote, whichever run was submitted first: after a render  *)
(* the status is cleared, the region visible and the fields those of that  *)
(* run's place and payload; after an error the status is that run's error  *)
(* message and the region hidden.                                          *)
(***************************************************************************)
C5_LastToFinishWins ==
    (Quiet /\ settled /= None) =>
        IF settled[1].err = None
        THEN /\ subs[settled[1].run].pc = "done"
             /\ statusText = ""
             /\ statusClass = "status info"
             /\ ~hidden
             /\ ShowsSettled
        ELSE /\ subs[settled[1].run].pc = "error"
             /\ statusText = settled[1].err[1]
             /\ statusClass = "status error"
             /\ hidden

\* Two overlapping runs have both returned, the one submitted first returning
\* last, and its render is on display.
C5_Witness ==
    /\ Len(subs) = 2
    /\ subs[1].pc = "done"
    /\ subs[2].pc \in {"done", "error"}
    /\ settled /= None
    /\ settled[1].run = 1
    /\ ~hidden

(***************************************************************************)
(* C6.  No request is sent twice: a run has sent exactly one geocoding     *)
(* request once it searches and exactly one weather request once it has a  *)
(* city, a run that ended in Error has no request left in flight and has   *)
(* sent at most one of each, and a rejected run has sent none.             *)
(***************************************************************************)
C6_NoRetry ==
    \A i \in Runs :
        LET s == subs[i]
        IN  /\ s.geoSent <= 1 /\ s.wxSent <= 1
            /\ s.pc = "rejected" => s.geoSent = 0 /\ s.wxSent = 0
            /\ s.pc = "geocode" => s.geoSent = 1 /\ s.wxSent = 0 /\ s.geoReq /= None
            /\ s.pc = "weather" => s.geoSent = 1 /\ s.wxSent = 1 /\ s.wxReq /= None
            /\ s.pc = "done" => s.geoSent = 1 /\ s.wxSent = 1
            /\ s.pc \in {"done", "error"} => s.geoReq = None /\ s.wxReq = None
            /\ s.pc = "error" => s.geoSent = 1

\* After a run that ended in Error, a later run has gone through both requests
\* and put weather on display.
C6_Witness ==
    /\ Len(subs) = 2
    /\ subs[1].pc = "error"
    /\ subs[2].pc = "done"
    /\ subs[2].geoSent = 1
    /\ subs[2].wxSent = 1
    /\ settled /= None
    /\ settled[1].run = 2
    /\ ~hidden
    /\ statusText = ""

(***************************************************************************)
(* C7.  The condition text of a render is never empty; it is the table's   *)
(* description when the payload's weather code is a key of the table (3    *)
(* gives "Nublado", 0 gives "Céu limpo") and "Código <code>" for every     *)
(* other integer.                                                          *)
(***************************************************************************)
C7_CodeLookupTotal ==
    (settled /= None /\ settled[1].err = None) =>
        LET code == CurrentOf(settled[1].wxRes).weather_code[1]
        IN  /\ ui.code /= ""
            /\ code \in DOMAIN WEATHER_CODE_MAP => ui.code = WEATHER_CODE_MAP[code]
            /\ code \notin DOMAIN WEATHER_CODE_MAP => ui.code = "Codigo " \o ToString(code)
            /\ code = 3 => ui.code = "Nublado"
            /\ code = 0 => ui.code = "Ceu limpo"
            /\ code = 99 => ui.code = "Trovoadas com granizo forte"
            /\ code = 4 => ui.code = "Codigo 4"
            /\ code = -1 => ui.code = "Codigo -1"

\* A payload with a code the table does not hold has been rendered.
C7_Witness ==
    /\ settled /= None
    /\ settled[1].err = None
    /\ CurrentOf(settled[1].wxRes).weather_code = Some(100)
    /\ ui.code = "Codigo 100"
    /\ ~hidden

(***************************************************************************)
(* C8.  The city a run holds comes from the first element of the result    *)
(* list alone: its coordinates and time zone are that element's and its    *)
(* name is "<name>, <region> - <country>" without the ", <region>" segment *)
(* when the region is absent and without the " - <country>" segment when   *)
(* the country is absent; a render displays that name.                     *)
(***************************************************************************)
C8_PlaceNameComposition ==
    /\ \A i \in Runs :
         subs[i].city /= None =>
            LET r == FirstResult(subs[i].geoRes)
                city == subs[i].city[1]
            IN  /\ city.latitude = r.latitude
                /\ city.longitude = r.longitude
                /\ city.timezone = r.timezone
                /\ (Present(r.admin1) /\ Present(r.country)) =>
                      city.name = r.name \o ", " \o r.admin1[1] \o " - " \o r.country[1]
                /\ (Present(r.admin1) /\ ~Present(r.country)) =>
                      city.name = r.name \o ", " \o r.admin1[1]
                /\ (~Present(r.admin1) /\ Present(r.country)) =>
                      city.name = r.name \o " - " \o r.country[1]
                /\ (~Present(r.admin1) /\ ~Present(r.country)) => city.name = r.name
                /\ r = SaoPaulo => city.name = "Sao Paulo, SP - Brazil"
    /\ (settled /= None /\ settled[1].err = None) =>
          ui.location = settled[1].city[1].name

\* A result without a region has been rendered from the head of a longer list.
C8_Witness ==
    /\ settled /= None
    /\ settled[1].err = None
    /\ settled[1].geoRes = Some(Resolved(TRUE, Some([results |-> Some(<<Lisboa, SaoPaulo>>)])))
    /\ ui.location = "Lisboa - Portugal"
    /\ ~hidden

(***************************************************************************)
(* C9 as stated.  The weather region is visible only when the status text  *)
(* is empty and no run is in flight: whenever a run awaits its geocoding   *)
(* or weather call, the region is hidden.                                  *)
(***************************************************************************)
C9_HiddenWhileSearching ==
    /\ ~hidden => (statusText = "" /\ Quiet)
    /\ (\E i \in Runs : InFlight(i)) => hidden

(***************************************************************************)
(* C9 as amended.  The weather region is visible only when the status text *)
(* is empty or "Buscando clima...", with class "status info", and the run  *)
(* that returned last rendered; it is hidden whenever the status is        *)
(* "Buscando cidade..." or an error message, and whenever no run has       *)
(* returned since the page loaded.  With at most one submit event in all,  *)
(* the region is hidden while the run is in flight.                        *)
(***************************************************************************)
C9_VisibleOnlyAfterRender ==
    /\ ~hidden =>
          /\ statusText \in {"", "Buscando clima..."}
          /\ statusClass = "status info"
          /\ settled /= None
          /\ settled[1].err = None
          /\ subs[settled[1].run].pc = "done"
          /\ statusText /= "" => \E i \in Runs : subs[i].pc = "weather"
    /\ statusText = "Buscando cidade..." => hidden
    /\ statusClass = "status error" => hidden
    /\ (Len(subs) <= 1 /\ ~Quiet) => hidden

\* One run's render is on display while an overlapping run looks up its weather.
C9_Witness ==
    /\ ~hidden
    /\ statusText = "Buscando clima..."
    /\ \E i \in Runs : subs[i].pc = "weather"

====
